---- MODULE Spec2Model ----
(***************************************************************************)
(* Task lifecycle of the service scaffolding:                              *)
(*   ServiceBase.handle_task        (alv4_service/common/base.py)          *)
(*   Task artifact lists and limits (assemblyline_v4_service/common/task.py)*)
(*   get_heuristics                 (assemblyline_v4_service/common/helper.py)*)
(*                                                                         *)
(* Spec     : one service object handling tasks one after the other; the   *)
(*            service-specific execute() is any sequence of calls on the   *)
(*            task followed by a return or a raise.                        *)
(* SpecHeur : get_heuristics applied to every manifest of a bounded set.   *)
(***************************************************************************)
EXTENDS Integers, Sequences, FiniteSets, TLC

\* ---------------------------------------------------------------- bounds
\* largest configured max_extracted (task.max_files) that is explored
MaxMax == 2
\* cap on the length of an artifact list (the lists are unbounded in the code)
MaxFiles == 3
\* files on disk that execute() may hand to add_extracted/add_supplementary
NumPaths == 2
\* longest heuristics list of a manifest
MaxHeur == 3
\* distinct heur_id values of manifest entries
NumHeurIds == 2

Paths == 1 .. NumPaths
\* os.path.getsize(path): the last path is the zero-byte file, the others are not empty
FileSize == [p \in Paths |-> NumPaths - p]

None == "None"

VARIABLES
    \* ---- Task (task.py __init__)
    max_extracted,      \* self.max_extracted = task.max_files
    extracted,          \* self.extracted
    supplementary,      \* self.supplementary
    result,             \* self.result
    error_status,       \* self.error_status
    service_started,    \* self._service_started is set
    service_completed,  \* self._service_completed is set
    task_wd,            \* Task._working_directory
    \* ---- ServiceBase
    svc_wd,             \* ServiceBase._working_directory
    hasTaskHash,        \* whether the service object has the attribute task_hash
    \* ---- file system
    taskDirExists,      \* directory made by Task.working_directory
    svcDirExists,       \* directory made by ServiceBase.working_directory
    resultJson,         \* <service working directory>/result.json
    resultWrites,       \* writes of {sid}_{sha256}_result.json made for this task
    errorWrites,        \* error records written for this task
    \* ---- control
    pc,                 \* position of handle_task for the current task
    raised,             \* kind of the exception execute() raised
    exitKind,           \* how handle_task left: returned or raised
    trace,              \* lifecycle events of the current task, in order
    lastOp, lastPath, lastRet,   \* the last call made on the task, its file, its outcome
    \* ---- helper.py
    manifest,           \* parsed service_manifest.yml
    heuristics          \* what get_heuristics returned

vars == <<max_extracted, extracted, supplementary, result, error_status,
          service_started, service_completed, task_wd, svc_wd, hasTaskHash,
          taskDirExists, svcDirExists, resultJson, resultWrites, errorWrites,
          pc, raised, exitKind, trace, lastOp, lastPath, lastRet,
          manifest, heuristics>>

taskVars == <<max_extracted, extracted, supplementary, result, error_status,
              service_started, service_completed, task_wd>>
fsVars == <<taskDirExists, svcDirExists, resultJson, resultWrites, errorWrites>>
ctlVars == <<pc, raised, exitKind, trace>>
heurVars == <<manifest, heuristics>>

\* ------------------------------------------------------------ Task (task.py)

\* Task.__init__: the fields a fresh Task starts with
TaskInit(m) ==
    /\ max_extracted = m
    /\ extracted = <<>>
    /\ supplementary = <<>>
    /\ result = None
    /\ error_status = None
    /\ service_started = FALSE
    /\ service_completed = FALSE
    /\ task_wd = None

\* Task._add_file: None for an empty file, else the record of the file
\* (NoFile stands for the None it returns; a record holds the path of its file)
NoFile == [path |-> 0]
add_file_keeps_empty(path) == [path |-> path]
add_file(path) ==
    IF FileSize[path] = 0 THEN NoFile
    ELSE [path |-> path]

\* the guard of Task.add_extracted:
\*   if self.max_extracted and len(self.extracted) >= int(self.max_extracted)
limit_off_by_one(m, ext) == m # 0 /\ Len(ext) > m
limit_never(m, ext) == FALSE
limit_reached(m, ext) == m # 0 /\ Len(ext) >= m

\* the call is explored only while the lists stay within MaxFiles
WithinCap(list, path) == add_file(path) = NoFile \/ Len(list) < MaxFiles

\* Task.add_extracted(path, ...), called by execute()
add_extracted(path) ==
    /\ pc = "executing"
    /\ limit_reached(max_extracted, extracted) \/ WithinCap(extracted, path)
    /\ lastOp' = "add_extracted"
    /\ lastPath' = path
    /\ IF limit_reached(max_extracted, extracted)
       THEN /\ lastRet' = "MaxExtractedExceeded"
            /\ extracted' = extracted
       ELSE IF add_file(path) = NoFile
       THEN /\ lastRet' = "False"
            /\ extracted' = extracted
       ELSE /\ lastRet' = "True"
            /\ extracted' = Append(extracted, add_file(path))
    /\ UNCHANGED <<max_extracted, supplementary, result, error_status,
                   service_started, service_completed, task_wd>>
    /\ UNCHANGED <<svc_wd, hasTaskHash, fsVars, ctlVars, heurVars>>

\* Task.add_supplementary(path, ...), called by execute()
add_supplementary(path) ==
    /\ pc = "executing"
    /\ WithinCap(supplementary, path)
    /\ lastOp' = "add_supplementary"
    /\ lastPath' = path
    /\ IF add_file(path) = NoFile
       THEN /\ lastRet' = "False"
            /\ supplementary' = supplementary
       ELSE /\ lastRet' = "True"
            /\ supplementary' = Append(supplementary, add_file(path))
    /\ UNCHANGED <<max_extracted, extracted, result, error_status,
                   service_started, service_completed, task_wd>>
    /\ UNCHANGED <<svc_wd, hasTaskHash, fsVars, ctlVars, heurVars>>

\* Task.clear_extracted(), called by execute()
clear_extracted ==
    /\ pc = "executing"
    /\ extracted' = <<>>
    /\ lastOp' = "clear_extracted"
    /\ lastPath' = 0
    /\ lastRet' = None
    /\ UNCHANGED <<max_extracted, supplementary, result, error_status,
                   service_started, service_completed, task_wd>>
    /\ UNCHANGED <<svc_wd, hasTaskHash, fsVars, ctlVars, heurVars>>

\* Task.clear_supplementary(), called by execute()
clear_supplementary ==
    /\ pc = "executing"
    /\ supplementary' = <<>>
    /\ lastOp' = "clear_supplementary"
    /\ lastPath' = 0
    /\ lastRet' = None
    /\ UNCHANGED <<max_extracted, extracted, result, error_status,
                   service_started, service_completed, task_wd>>
    /\ UNCHANGED <<svc_wd, hasTaskHash, fsVars, ctlVars, heurVars>>

\* Task.working_directory (property): mkdtemp on first access, the same path after
task_working_directory ==
    /\ pc = "executing"
    /\ IF task_wd = None
       THEN task_wd' = "dir" /\ taskDirExists' = TRUE
       ELSE UNCHANGED <<task_wd, taskDirExists>>
    /\ lastOp' = "task_working_directory"
    /\ lastPath' = 0
    /\ lastRet' = "dir"
    /\ UNCHANGED <<max_extracted, extracted, supplementary, result, error_status,
                   service_started, service_completed>>
    /\ UNCHANGED <<svc_wd, hasTaskHash, svcDirExists, resultJson, resultWrites,
                   errorWrites, ctlVars, heurVars>>

\* ------------------------------------------------------ ServiceBase (base.py)

\* ServiceBase.working_directory (property): the path is built from
\* self.task_hash, which ServiceBase never sets; with the attribute present the
\* directory is made and remembered in self._working_directory
wd_after_access(wd) == IF hasTaskHash /\ wd = None THEN "dir" ELSE wd

\* execute() reads the service's working_directory
service_working_directory ==
    /\ pc = "executing"
    /\ svc_wd' = wd_after_access(svc_wd)
    /\ svcDirExists' = (hasTaskHash \/ svcDirExists)
    /\ lastOp' = "service_working_directory"
    /\ lastPath' = 0
    /\ lastRet' = IF hasTaskHash THEN "dir" ELSE "AttributeError"
    /\ UNCHANGED <<taskVars, hasTaskHash, taskDirExists, resultJson, resultWrites,
                   errorWrites, ctlVars, heurVars>>

\* ServiceBase._cleanup_working_directory applied to the file system (wd, dir, rj);
\* rmtreeOk is whether shutil.rmtree succeeds (a failure is logged and swallowed)
cleanup_working_directory(wd, dir, rj, rmtreeOk) ==
    IF wd # None /\ rmtreeOk
    THEN [svc_wd |-> None, svcDirExists |-> FALSE, resultJson |-> "absent"]
    ELSE [svc_wd |-> None, svcDirExists |-> dir, resultJson |-> rj]

\* the except clause of handle_task: self._handle_execute_failure() is called
\* without the three arguments its signature requires, so the call raises
\* TypeError before the body runs: nothing is cleared, no error is saved, and the
\* TypeError leaves handle_task once the finally clause has run
handler_exit == "raised"

\* handle_task up to the call of execute: task.start(self.service), the request,
\* the invocation. startBinds is whether the start call binds: Task.start of
\* task.py requires two arguments and is given one.
handle_task_begin(startBinds, rmtreeOk) ==
    /\ pc = "created"
    /\ IF startBinds
       THEN /\ service_started' = TRUE
            /\ extracted' = <<>>
            /\ supplementary' = <<>>
            /\ pc' = "executing"
            /\ trace' = <<"STARTED", "EXECUTING">>
            /\ UNCHANGED <<exitKind, svc_wd, svcDirExists, resultJson>>
       ELSE /\ UNCHANGED <<service_started, extracted, supplementary>>
            /\ pc' = "exited"
            /\ exitKind' = handler_exit
            /\ trace' = <<"CLEANED_UP">>
            /\ LET c == cleanup_working_directory(svc_wd, svcDirExists, resultJson, rmtreeOk)
               IN /\ svc_wd' = c.svc_wd
                  /\ svcDirExists' = c.svcDirExists
                  /\ resultJson' = c.resultJson
    /\ lastOp' = "start"
    /\ lastPath' = 0
    /\ lastRet' = IF startBinds THEN None ELSE "TypeError"
    /\ UNCHANGED <<max_extracted, result, error_status, service_completed, task_wd,
                   hasTaskHash, taskDirExists, resultWrites, errorWrites, raised,
                   heurVars>>

\* execute returns res; handle_task runs task.set_result, task.done, _success
\* (task.success, then _save_result), the except clause and the finally clause.
\*   task.success: sets the completion time; save_result calls
\*     self.result.finalize(), which raises when the result is None, and
\*     otherwise writes the result file
\*   _save_result: reads self.working_directory, opens result.json in binary
\*     mode (the file is created) and json.dump raises TypeError on it
execute_return(res, rmtreeOk) ==
    /\ pc = "executing"
    /\ result' = res
    /\ service_completed' = TRUE
    /\ resultWrites' = IF res # None THEN resultWrites + 1 ELSE resultWrites
    /\ LET saved == res # None
           wd1 == IF saved THEN wd_after_access(svc_wd) ELSE svc_wd
           dir1 == IF saved THEN (hasTaskHash \/ svcDirExists) ELSE svcDirExists
           rj1 == IF saved /\ hasTaskHash THEN "empty" ELSE resultJson
           c == cleanup_working_directory(wd1, dir1, rj1, rmtreeOk)
       IN /\ svc_wd' = c.svc_wd
          /\ svcDirExists' = c.svcDirExists
          /\ resultJson' = c.resultJson
          /\ trace' = trace \o (IF saved THEN <<"SUCCEEDED">> ELSE <<>>)
                            \o <<"CLEANED_UP">>
    /\ raised' = "none"
    /\ exitKind' = handler_exit
    /\ pc' = "exited"
    /\ lastOp' = "execute_return"
    /\ lastPath' = 0
    /\ lastRet' = None
    /\ UNCHANGED <<max_extracted, extracted, supplementary, error_status,
                   service_started, task_wd, hasTaskHash, taskDirExists,
                   errorWrites, heurVars>>

\* execute raises an exception of the given kind ("RecoverableError" or any
\* other Exception, MaxExtractedExceeded included); handle_task runs the except
\* clause and the finally clause
ExceptionKinds == {"RecoverableError", "Exception"}
execute_raise(kind, rmtreeOk) ==
    /\ pc = "executing"
    /\ raised' = kind
    /\ LET c == cleanup_working_directory(svc_wd, svcDirExists, resultJson, rmtreeOk)
       IN /\ svc_wd' = c.svc_wd
          /\ svcDirExists' = c.svcDirExists
          /\ resultJson' = c.resultJson
    /\ trace' = Append(trace, "CLEANED_UP")
    /\ exitKind' = handler_exit
    /\ pc' = "exited"
    /\ lastOp' = "execute_raise"
    /\ lastPath' = 0
    /\ lastRet' = None
    /\ UNCHANGED <<taskVars, hasTaskHash, taskDirExists, resultWrites, errorWrites,
                   heurVars>>

\* the host hands the next work item to the service: a new Task is constructed
new_task(m) ==
    /\ pc = "exited"
    /\ max_extracted' = m
    /\ extracted' = <<>>
    /\ supplementary' = <<>>
    /\ result' = None
    /\ error_status' = None
    /\ service_started' = FALSE
    /\ service_completed' = FALSE
    /\ task_wd' = None
    /\ taskDirExists' = FALSE
    /\ svcDirExists' = FALSE
    /\ resultJson' = "absent"
    /\ resultWrites' = 0
    /\ errorWrites' = 0
    /\ pc' = "created"
    /\ raised' = "none"
    /\ exitKind' = "none"
    /\ trace' = <<>>
    /\ lastOp' = "none"
    /\ lastPath' = 0
    /\ lastRet' = None
    /\ UNCHANGED <<svc_wd, hasTaskHash, heurVars>>

\* ------------------------------------------------------------- helper.py

\* entries of the manifest's heuristics list: {heur_id, name}
HeurIds == 1 .. NumHeurIds
HeurNames == {"a", "b"}
HeurEntries == [heur_id : HeurIds, name : HeurNames]

RECURSIVE SeqsUpTo(_, _)
SeqsUpTo(S, n) ==
    IF n = 0 THEN {<<>>}
    ELSE LET shorter == SeqsUpTo(S, n - 1)
         IN shorter \cup {Append(q, x) : q \in {r \in shorter : Len(r) = n - 1}, x \in S}

\* get_service_manifest(): the parsed manifest, with or without a heuristics key
NoManifest == [present |-> FALSE, list |-> <<>>]
Manifests ==
    {NoManifest} \cup {[present |-> TRUE, list |-> l] : l \in SeqsUpTo(HeurEntries, MaxHeur)}

NotCalled == [type |-> "not called", value |-> <<>>]

\* {heuristic['heur_id']: Heuristic(heuristic) for heuristic in heuristics}:
\* a later entry replaces an earlier one with the same heur_id
heuristics_first_wins(list) ==
    [i \in {list[k].heur_id : k \in DOMAIN list} |->
        list[CHOOSE k \in DOMAIN list :
                /\ list[k].heur_id = i
                /\ \A j \in DOMAIN list : list[j].heur_id = i => j >= k]]
heuristics_by_id(list) ==
    [i \in {list[k].heur_id : k \in DOMAIN list} |->
        list[CHOOSE k \in DOMAIN list :
                /\ list[k].heur_id = i
                /\ \A j \in DOMAIN list : list[j].heur_id = i => j <= k]]

\* the value get_heuristics returns for a manifest:
\*   heuristics = manifest.get('heuristics', None)
\*   if heuristics: heuristics = {...}
\*   return heuristics
get_heuristics_value(man) ==
    IF ~man.present THEN [type |-> "NoneType", value |-> <<>>]
    ELSE IF man.list = <<>> THEN [type |-> "list", value |-> <<>>]
    ELSE [type |-> "dict", value |-> heuristics_by_id(man.list)]

get_heuristics ==
    /\ heuristics = NotCalled
    /\ heuristics' = get_heuristics_value(manifest)
    /\ UNCHANGED <<taskVars, svc_wd, hasTaskHash, fsVars, ctlVars,
                   lastOp, lastPath, lastRet, manifest>>

InitHeur ==
    /\ TaskInit(0)
    /\ svc_wd = None
    /\ hasTaskHash = FALSE
    /\ taskDirExists = FALSE
    /\ svcDirExists = FALSE
    /\ resultJson = "absent"
    /\ resultWrites = 0
    /\ errorWrites = 0
    /\ pc = "created"
    /\ raised = "none"
    /\ exitKind = "none"
    /\ trace = <<>>
    /\ lastOp = "none"
    /\ lastPath = 0
    /\ lastRet = None
    /\ manifest \in Manifests
    /\ heuristics = NotCalled

NextHeur == get_heuristics

SpecHeur == InitHeur /\ [][NextHeur]_vars

\* ------------------------------------------------ the service handling tasks

Init ==
    /\ \E m \in 0 .. MaxMax : TaskInit(m)
    /\ svc_wd = None
    /\ hasTaskHash \in BOOLEAN
    /\ taskDirExists = FALSE
    /\ svcDirExists = FALSE
    /\ resultJson = "absent"
    /\ resultWrites = 0
    /\ errorWrites = 0
    /\ pc = "created"
    /\ raised = "none"
    /\ exitKind = "none"
    /\ trace = <<>>
    /\ lastOp = "none"
    /\ lastPath = 0
    /\ lastRet = None
    /\ manifest = NoManifest
    /\ heuristics = NotCalled

Next ==
    \/ \E b \in BOOLEAN, ok \in BOOLEAN : handle_task_begin(b, ok)
    \/ \E p \in Paths : add_extracted(p)
    \/ \E p \in Paths : add_supplementary(p)
    \/ clear_extracted
    \/ clear_supplementary
    \/ task_working_directory
    \/ service_working_directory
    \/ \E res \in {None, "Result"}, ok \in BOOLEAN : execute_return(res, ok)
    \/ \E k \in ExceptionKinds, ok \in BOOLEAN : execute_raise(k, ok)
    \/ \E m \in 0 .. MaxMax : new_task(m)

Spec == Init /\ [][Next]_vars

\* ==================================================================== claims

MEE == "MaxExtractedExceeded"
Outcomes == {"SUCCEEDED", "FAILED_RECOVERABLE", "FAILED_NONRECOVERABLE"}
IsAdd(op) == op \in {"add_extracted", "add_supplementary"}

\* C1: once handle_task has exited, whatever the outcome of execute, the working
\* directory created for the task (Task.working_directory) exists no more.
C1_WorkingDirectoryRemoved ==
    pc = "exited" => ~taskDirExists

\* C2: whenever execute raises, handle_task returns normally and the exception
\* has been turned into a persisted error record.
C2_ExecuteFailureConverted ==
    (pc = "exited" /\ raised # "none") => (exitKind = "returned" /\ errorWrites = 1)

\* C3: when execute raises, the error status of the task's error record is
\* FAIL_RECOVERABLE exactly for a recoverable exception and FAIL_NONRECOVERABLE
\* otherwise; it is never unset.
C3_ErrorStatusByKind ==
    (pc = "exited" /\ raised # "none") =>
        error_status = (IF raised = "RecoverableError" THEN "FAIL_RECOVERABLE"
                        ELSE "FAIL_NONRECOVERABLE")

\* C4: when execute raises after adding artifacts, both artifact lists have
\* been emptied by the time handle_task is done with the failure.
C4_ArtifactsClearedOnFailure ==
    (pc = "exited" /\ raised # "none") => (extracted = <<>> /\ supplementary = <<>>)

C7_EmptyFileReturnsFalse ==
    [][(IsAdd(lastOp') /\ FileSize[lastPath'] = 0)
         => (lastRet' = "False" /\ extracted' = extracted
             /\ supplementary' = supplementary)]_vars

\* no record of either list is that of a zero-byte file
NoEmptyFileRecorded ==
    /\ \A i \in DOMAIN extracted : FileSize[extracted[i].path] > 0
    /\ \A i \in DOMAIN supplementary : FileSize[supplementary[i].path] > 0

\* C7 (amended): for a zero-byte file add_supplementary returns False, and
\* add_extracted returns False unless the extracted limit is already reached, in
\* which case it raises MaxExtractedExceeded; in every case both lists are left
\* unchanged, and no zero-byte file is ever recorded.
C7_EmptyFileNeverRecorded ==
    /\ []NoEmptyFileRecorded
    /\ [][(IsAdd(lastOp') /\ FileSize[lastPath'] = 0)
            => /\ extracted' = extracted
               /\ supplementary' = supplementary
               /\ lastRet' = (IF /\ lastOp' = "add_extracted"
                                 /\ max_extracted >= 1
                                 /\ Len(extracted) >= max_extracted
                              THEN MEE ELSE "False")]_vars

C7_Witness ==
    /\ lastOp = "add_extracted"
    /\ FileSize[lastPath] = 0
    /\ lastRet = "False"
    /\ Len(extracted) >= 1

\* C8: for a task that handle_task started, exactly one record (a result or an
\* error) has been persisted, once, when handle_task has exited.
C8_ExactlyOneRecord ==
    (pc = "exited" /\ service_started) => resultWrites + errorWrites = 1

\* C10: a task that handle_task started goes through STARTED, EXECUTING, one of
\* the three outcomes and CLEANED_UP, in that order and once each: the cleanup
\* comes only after an outcome has been recorded.
C10_LifecycleOrder ==
    (pc = "exited" /\ service_started) =>
        \E o \in Outcomes : trace = <<"STARTED", "EXECUTING", o, "CLEANED_UP">>

\* C9: get_heuristics returns a mapping in every case: the empty mapping when
\* the manifest has no heuristics section or an empty one, and otherwise a
\* mapping keyed by the heur_id of each entry.
C9_HeuristicsIsMapping ==
    heuristics # NotCalled =>
        /\ heuristics.type = "dict"
        /\ DOMAIN heuristics.value =
              {manifest.list[k].heur_id : k \in DOMAIN manifest.list}

====
